---- MODULE Spec2Model ----
(***************************************************************************)
(* Model of utils.py: fetch_energy_data (one HTTP GET, errors wrapped) and *)
(* process_pricing_data (flatten the decoded response into a series of     *)
(* (datetime, price) records sorted by datetime).                          *)
(*                                                                         *)
(* Strings are sequences of one-character strings, so that the two         *)
(* re.sub calls and datetime.strptime are computed character by character. *)
(***************************************************************************)
EXTENDS Integers, Sequences, FiniteSets, TLC

VARIABLES
    pc,             \* position in fetch_energy_data / process_pricing_data
    response,       \* what the HTTP attempt will yield (transport, status, body)
    http_calls,     \* number of requests.get calls issued
    data,           \* argument of process_pricing_data
    items,          \* the values the loop of line 62 iterates over
    i,              \* index of the next data_item
    details,        \* the values the loop of line 70 iterates over
    j,              \* index of the next detail
    pricing_data,   \* line 48
    skipped_count,  \* line 49
    exc,            \* exception in flight inside process_pricing_data
    outcome,        \* what the caller finally sees
    processed,      \* history: mapping detail records the inner loop has taken
    silent,         \* history: of these, the ones that failed the test of line 77
    datetime_str,   \* cleanup study: the raw timestamp
    datetime_clean, \* cleanup study: the timestamp after one cleanup
    datetime_again  \* cleanup study: the timestamp after a second cleanup

vars == <<pc, response, http_calls, data, items, i, details, j, pricing_data,
          skipped_count, exc, outcome, processed, silent,
          datetime_str, datetime_clean, datetime_again>>

passVars == <<response, http_calls, data, items, i, details, j, pricing_data,
              skipped_count, exc, outcome, processed, silent>>

cleanVars == <<datetime_str, datetime_clean, datetime_again>>

----------------------------------------------------------------------------
(* Bounds *)

MaxDetails == 2   \* detail records in one response, over all entries
MaxLen == 7       \* length of the free strings of the cleanup study
MaxSize == 2      \* length of a string / mapping / list of scalars found where a list of mappings is expected

----------------------------------------------------------------------------
(* Characters and strings *)

Digits == {"0", "1", "2", "3", "4", "5", "6", "7", "8", "9"}

DigitVal(c) ==
    CASE c = "0" -> 0 [] c = "1" -> 1 [] c = "2" -> 2 [] c = "3" -> 3
      [] c = "4" -> 4 [] c = "5" -> 5 [] c = "6" -> 6 [] c = "7" -> 7
      [] c = "8" -> 8 [] c = "9" -> 9

IsDigitAt(s, k) == k >= 1 /\ k <= Len(s) /\ s[k] \in Digits

\* s ends with the pattern [+-]\d{4}
EndsWithOffset(s) ==
    /\ Len(s) >= 5
    /\ s[Len(s) - 4] \in {"+", "-"}
    /\ \A k \in (Len(s) - 3)..Len(s) : s[k] \in Digits

\* re.sub(r'[+-]\d{4}$', '', s); $ also matches just before a final newline
StripOffset(s) ==
    IF EndsWithOffset(s) THEN SubSeq(s, 1, Len(s) - 5)
    ELSE IF Len(s) >= 6 /\ s[Len(s)] = "\n" /\ EndsWithOffset(SubSeq(s, 1, Len(s) - 1))
         THEN SubSeq(s, 1, Len(s) - 6) \o <<"\n">>
         ELSE s

\* number of digits from position k on
RECURSIVE DigitRun(_, _)
DigitRun(s, k) == IF IsDigitAt(s, k) THEN 1 + DigitRun(s, k + 1) ELSE 0

RECURSIVE StripFractionFrom(_, _)
StripFractionFrom(s, k) ==
    IF k > Len(s) THEN <<>>
    ELSE IF s[k] = "." /\ IsDigitAt(s, k + 1)
         THEN StripFractionFrom(s, k + 1 + DigitRun(s, k + 1))
         ELSE <<s[k]>> \o StripFractionFrom(s, k + 1)

\* faulty variant: replaces the first match only, as count=1 would
StripFractionFirst(s) ==
    IF \E k \in 1..Len(s) : s[k] = "." /\ IsDigitAt(s, k + 1)
    THEN LET k == CHOOSE k \in 1..Len(s) :
                     /\ s[k] = "." /\ IsDigitAt(s, k + 1)
                     /\ \A m \in 1..(k - 1) : ~(s[m] = "." /\ IsDigitAt(s, m + 1))
         IN SubSeq(s, 1, k - 1) \o SubSeq(s, k + 1 + DigitRun(s, k + 1), Len(s))
    ELSE s

\* re.sub(r'\.\d+', '', s)
StripFraction(s) == StripFractionFrom(s, 1)

\* the cleanup as a whole: both substitutions, in the order of the code
Cleanup(s) == StripFraction(StripOffset(s))

----------------------------------------------------------------------------
(* datetime.strptime(s, '%Y-%m-%dT%H:%M:%S'): four digits of year, then    *)
(* month, day, hour, minute and second of one or two digits each, between  *)
(* the literal separators; the whole string must be consumed and the       *)
(* fields must form a date that exists. (A day written as a space and one  *)
(* digit, which strptime also accepts, is left out.)                       *)

NoDate == <<0, 0, 0, 0, 0, 0>>

IsLeap(y) == (y % 4 = 0 /\ y % 100 # 0) \/ y % 400 = 0

DaysInMonth(y, m) ==
    IF m = 2 THEN (IF IsLeap(y) THEN 29 ELSE 28)
    ELSE IF m \in {4, 6, 9, 11} THEN 30 ELSE 31

\* a field of one or two digits starting at k: [w |-> width, v |-> value], w = 0 when
\* the digits at k are not one or two digits followed by a non-digit
Field(s, k) ==
    LET w == DigitRun(s, k)
    IN IF w = 1 THEN [w |-> 1, v |-> DigitVal(s[k])]
       ELSE IF w = 2 THEN [w |-> 2, v |-> 10 * DigitVal(s[k]) + DigitVal(s[k + 1])]
       ELSE [w |-> 0, v |-> 0]

IsCharAt(s, k, cs) == k >= 1 /\ k <= Len(s) /\ s[k] \in cs

Strptime(s) ==
    LET bad == [ok |-> FALSE, dt |-> NoDate]
    IN IF ~(DigitRun(s, 1) = 4 /\ IsCharAt(s, 5, {"-"})) THEN bad
       ELSE
       LET year == 1000 * DigitVal(s[1]) + 100 * DigitVal(s[2])
                     + 10 * DigitVal(s[3]) + DigitVal(s[4])
           mo == Field(s, 6)
           pd == 6 + mo.w + 1
           da == Field(s, pd)
           ph == pd + da.w + 1
           ho == Field(s, ph)
           pm == ph + ho.w + 1
           mi == Field(s, pm)
           ps == pm + mi.w + 1
           se == Field(s, ps)
       IN IF /\ mo.w > 0 /\ mo.v >= 1 /\ mo.v <= 12
             /\ IsCharAt(s, pd - 1, {"-"})
             /\ da.w > 0 /\ da.v >= 1 /\ da.v <= 31
             /\ IsCharAt(s, ph - 1, {"T", "t"})
             /\ ho.w > 0 /\ ho.v <= 23
             /\ IsCharAt(s, pm - 1, {":"})
             /\ mi.w > 0 /\ mi.v <= 59
             /\ IsCharAt(s, ps - 1, {":"})
             /\ se.w > 0 /\ se.v <= 59
             /\ ps + se.w - 1 = Len(s)           \* no unconverted data remains
             /\ year >= 1                        \* datetime.MINYEAR
             /\ da.v <= DaysInMonth(year, mo.v)
          THEN [ok |-> TRUE, dt |-> <<year, mo.v, da.v, ho.v, mi.v, se.v>>]
          ELSE bad

\* lines 82-90: strip the offset, parse; on failure strip the fraction and parse again
ParseTimestamp(s) ==
    LET clean == StripOffset(s)
        first == Strptime(clean)
    IN IF first.ok THEN first ELSE Strptime(StripFraction(clean))

RECURSIVE DtLessFrom(_, _, _)
DtLessFrom(a, b, k) ==
    IF k > 6 THEN FALSE
    ELSE IF a[k] # b[k] THEN a[k] < b[k] ELSE DtLessFrom(a, b, k + 1)

\* comparison of two datetime values
DtLess(a, b) == DtLessFrom(a, b, 1)

----------------------------------------------------------------------------
(* float(price) *)

RECURSIVE DigitsValue(_, _, _)
DigitsValue(s, k, n) ==
    IF n = 0 THEN 0 ELSE DigitsValue(s, k, n - 1) * 10 + DigitVal(s[k + n - 1])

\* a float is m * 10^(-e), kept with the least e
RECURSIVE Normal(_, _)
Normal(m, e) == IF e > 0 /\ m % 10 = 0 THEN Normal(m \div 10, e - 1) ELSE [m |-> m, e |-> e]

NoFloat == [m |-> 0, e |-> 0]

\* float() of a string: [sign] digits [. digits], at least one digit
ParseFloat(s) ==
    LET signed == Len(s) >= 1 /\ s[1] \in {"+", "-"}
        b == IF signed THEN Tail(s) ELSE s
        ip == DigitRun(b, 1)
        dot == ip < Len(b) /\ b[ip + 1] = "."
        fp == IF dot THEN DigitRun(b, ip + 2) ELSE 0
        used == ip + (IF dot THEN 1 + fp ELSE 0)
        mag == DigitsValue(b, 1, ip) * (10 ^ fp) + (IF dot THEN DigitsValue(b, ip + 2, fp) ELSE 0)
    IN IF ip + fp >= 1 /\ used = Len(b)
       THEN [ok |-> TRUE, v |-> Normal(IF signed /\ s[1] = "-" THEN 0 - mag ELSE mag, fp)]
       ELSE [ok |-> FALSE, v |-> NoFloat]

\* float(price) for the price values of the model: "ok", or the exception raised
ToFloat(price) ==
    CASE price.t = "num"    -> [r |-> "ok", v |-> price.v]
      [] price.t = "str"    -> IF ParseFloat(price.s).ok
                               THEN [r |-> "ok", v |-> ParseFloat(price.s).v]
                               ELSE [r |-> "ValueError", v |-> NoFloat]
      [] price.t = "bigint" -> [r |-> "OverflowError", v |-> NoFloat]
      [] OTHER              -> [r |-> "TypeError", v |-> NoFloat]

----------------------------------------------------------------------------
(* The decoded JSON values the model draws its inputs from *)

TsA == <<"2","0","2","4","-","0","1","-","0","1","T","0","0",":","0","0",":","0","0","-","0","8","0","0">>
TsB == <<"2","0","2","4","-","0","1","-","0","1","T","0","1",":","0","0",":","0","0","-","0","8","0","0">>
TsFrac == <<"2","0","2","4","-","0","1","-","0","1","T","0","0",":","0","0",":","0","0",".","5","0","0","-","0","8","0","0">>
TsBad == <<"2","0","2","4","-","0","1","-","0","1">>

DtA == <<2024, 1, 1, 0, 0, 0>>
DtB == <<2024, 1, 1, 1, 0, 0>>

StrTs(s) == [t |-> "str", s |-> s]
NoTs == [t |-> "missing", s |-> <<>>]

NumPrice(m, e) == [t |-> "num", s |-> <<>>, v |-> [m |-> m, e |-> e]]
StrPrice(s) == [t |-> "str", s |-> s, v |-> NoFloat]
OtherPrice(t) == [t |-> t, s |-> <<>>, v |-> NoFloat]

Detail(ts, price) == [t |-> "dict", ts |-> ts, price |-> price]
ScalarDetail(t) == [t |-> t, ts |-> NoTs, price |-> OtherPrice("missing")]

DValidA == Detail(StrTs(TsA), StrPrice(<<"1", "2", ".", "5">>))
DValidB == Detail(StrTs(TsB), NumPrice(13, 0))
DValidFrac == Detail(StrTs(TsFrac), StrPrice(<<"7">>))
DNoPrice == Detail(StrTs(TsA), OtherPrice("missing"))
DNullPrice == Detail(StrTs(TsB), OtherPrice("null"))
DNoTs == Detail(NoTs, NumPrice(13, 0))
DBadTs == Detail(StrTs(TsBad), StrPrice(<<"1", "2", ".", "5">>))
DBadPrice == Detail(StrTs(TsA), StrPrice(<<"x">>))
DBigPrice == Detail(StrTs(TsB), OtherPrice("bigint"))
DNotDict == ScalarDetail("int")

DetailSet == {DValidA, DValidB, DValidFrac, DNoPrice, DNullPrice, DNoTs,
              DBadTs, DBadPrice, DBigPrice, DNotDict}

\* a value found where a list is expected: the list itself, or a string, a
\* mapping, a number (size is its value) or null
ListNode(elems) == [t |-> "list", size |-> Len(elems), elems |-> elems]
OtherNode(t, size) == [t |-> t, size |-> size, elems |-> <<>>]

Entry(pd) == [t |-> "dict", pd |-> pd]
ScalarEntry(t) == [t |-> t, pd |-> OtherNode("missing", 0)]

DetailSeqs(n) == UNION {[1..k -> DetailSet] : k \in 0..n}

\* entries that hold no detail record: a number, a mapping without
\* priceDetails, and mappings whose priceDetails is a number or a string
BareEntries ==
    {ScalarEntry("int"), Entry(OtherNode("missing", 0)),
     Entry(OtherNode("int", 5)), Entry(OtherNode("str", 1))}

Part(ds, a, b) == Entry(ListNode(SubSeq(ds, a, b)))

\* the data lists that hold the detail records ds in this order: in one
\* entry, cut into two entries at any place, or cut with a bare entry between
Layouts(ds) ==
    {<<Part(ds, 1, Len(ds))>>}
      \cup {<<Part(ds, 1, c), Part(ds, c + 1, Len(ds))>> : c \in 0..Len(ds)}
      \cup {<<Part(ds, 1, c), b, Part(ds, c + 1, Len(ds))>> :
              c \in 0..Len(ds), b \in BareEntries}

\* what may stand under the key data instead of a list of mappings
OddData ==
    {OtherNode("null", 0), OtherNode("int", 0), OtherNode("int", 5)}
      \cup {OtherNode("str", n) : n \in 0..MaxSize}
      \cup {OtherNode("dict", n) : n \in 0..MaxSize}
      \cup {ListNode([k \in 1..n |-> ScalarEntry("int")]) : n \in 1..MaxSize}

NoNode == OtherNode("missing", 0)

Mapping(hasData, d) == [t |-> "dict", hasData |-> hasData, d |-> d]
NotMapping(t) == [t |-> t, hasData |-> FALSE, d |-> NoNode]

\* the bodies that are not a mapping holding a non-empty list under data
OddBodies ==
    {NotMapping(t) : t \in {"list", "str", "int", "null"}}
      \cup {Mapping(FALSE, NoNode), Mapping(TRUE, ListNode(<<>>))}
      \cup {Mapping(TRUE, d) : d \in OddData}

Reply(net, status, json, body) == [net |-> net, status |-> status, json |-> json, body |-> body]

\* the attempts that fail, and those that succeed with an odd body
OddResponses ==
    {Reply("fail", 0, FALSE, NotMapping("null")),
     Reply("ok", 404, TRUE, Mapping(FALSE, NoNode)),
     Reply("ok", 500, FALSE, NotMapping("null")),
     Reply("ok", 200, FALSE, NotMapping("null"))}
      \cup {Reply("ok", 200, TRUE, b) : b \in OddBodies}

----------------------------------------------------------------------------
(* Python's view of these values *)

\* faulty variant: tests "is not None" instead of truth
TruthyNotNone(node) ==
    CASE node.t = "list" -> TRUE
      [] node.t \in {"str", "dict", "int"} -> node.size # 0
      [] OTHER -> FALSE

\* bool(x)
Truthy(node) ==
    CASE node.t = "list" -> node.elems # <<>>
      [] node.t \in {"str", "dict", "int"} -> node.size # 0
      [] OTHER -> FALSE

\* faulty variant: takes a number for a value to iterate over
IterableAll(node) == node.t \in {"list", "str", "dict", "int"}

\* whether iter(x) succeeds
Iterable(node) == node.t \in {"list", "str", "dict"}

\* the values "for e in x" yields: the elements of a list, the characters of
\* a string, the keys of a mapping
IterEntries(node) ==
    IF node.t = "list" THEN node.elems ELSE [k \in 1..node.size |-> ScalarEntry("str")]

IterDetails(node) ==
    IF node.t = "list" THEN node.elems ELSE [k \in 1..node.size |-> ScalarDetail("str")]

\* type(x).__name__
TypeName(t) == IF t = "null" THEN "NoneType" ELSE t

----------------------------------------------------------------------------
(* Results *)

NoOutcome == [kind |-> "none", series |-> <<>>, cls |-> "", origin |-> "", msg |-> <<>>]
NoExc == [cls |-> "", origin |-> "", msg |-> <<>>]

Raised(cls, origin, msg) == [cls |-> cls, origin |-> origin, msg |-> msg]

Failure(cls, origin, msg) ==
    [kind |-> "error", series |-> <<>>, cls |-> cls, origin |-> origin, msg |-> msg]

Returned(series) ==
    [kind |-> "ok", series |-> series, cls |-> "", origin |-> "", msg |-> <<>>]

PriceRecord(dt, price) == [datetime |-> dt, price |-> price]

IsSorted(series) ==
    \A k \in 1..(Len(series) - 1) : ~DtLess(series[k + 1].datetime, series[k].datetime)

Reorder(series, p) == [k \in 1..Len(series) |-> series[p[k]]]

Reorderings(series) == {Reorder(series, p) : p \in Permutations(1..Len(series))}

\* df.sort_values('datetime'): the rows in ascending order of datetime; the
\* default sort is not stable, so rows of equal datetime may come in any order
SortValues(series) == {r \in Reorderings(series) : IsSorted(r)}

\* faulty variant: puts the count in the message only when it is above one
EmptyMessageLate(n) ==
    <<"No valid pricing data records found after processing.">>
      \o (IF n > 1 THEN <<" Skipped ", ToString(n), " invalid records.">> ELSE <<>>)
      \o <<" This may indicate: (1) No data available for the selected date range, (2) API response structure changed, or (3) All records had parsing errors.">>

\* lines 107-110
EmptyMessage(n) ==
    <<"No valid pricing data records found after processing.">>
      \o (IF n > 0 THEN <<" Skipped ", ToString(n), " invalid records.">> ELSE <<>>)
      \o <<" This may indicate: (1) No data available for the selected date range, (2) API response structure changed, or (3) All records had parsing errors.">>

----------------------------------------------------------------------------
(* fetch_energy_data *)

\* faulty variant: leaves raise_for_status out
FetchCauseNoStatus(r) ==
    IF r.net = "fail" THEN "ConnectionError"
    ELSE IF ~r.json THEN "JSONDecodeError"
    ELSE ""

\* the RequestException the attempt ends in, "" when it ends in none
FetchCause(r) ==
    IF r.net = "fail" THEN "ConnectionError"
    ELSE IF r.status >= 400 /\ r.status < 600 THEN "HTTPError " \o ToString(r.status)
    ELSE IF ~r.json THEN "JSONDecodeError"
    ELSE ""

\* lines 29-34: one requests.get, raise_for_status, response.json(); any
\* RequestException is raised again as Exception("Failed to fetch data: ...")
Fetch ==
    /\ pc = "fetch"
    /\ http_calls' = http_calls + 1
    /\ IF FetchCause(response) # ""
       THEN /\ outcome' = Failure("Exception", "fetch",
                                  <<"Failed to fetch data: ", FetchCause(response)>>)
            /\ pc' = "done"
            /\ data' = data
       ELSE /\ data' = response.body
            /\ pc' = "fetched"
            /\ outcome' = outcome
    /\ UNCHANGED <<response, items, i, details, j, pricing_data, skipped_count,
                   exc, processed, silent, cleanVars>>

\* the caller hands what fetch_energy_data returned to process_pricing_data
FeedNormalizer ==
    /\ pc = "fetched"
    /\ pc' = "start"
    /\ UNCHANGED <<passVars, cleanVars>>

----------------------------------------------------------------------------
(* process_pricing_data *)

Raise(e) ==
    /\ exc' = e
    /\ pc' = "except"

\* faulty variant: goes to the lookup without the test of line 52
CheckDictSkipped ==
    /\ pc = "start"
    /\ pricing_data' = <<>>
    /\ skipped_count' = 0
    /\ pc' = "get_data"
    /\ UNCHANGED <<response, http_calls, data, items, i, details, j, outcome, exc,
                   processed, silent, cleanVars>>

\* lines 46-53
CheckDict ==
    /\ pc = "start"
    /\ pricing_data' = <<>>
    /\ skipped_count' = 0
    /\ IF data.t # "dict"
       THEN Raise(Raised("ValueError", "not_dict",
                         <<"Expected dict but got ", TypeName(data.t)>>))
       ELSE pc' = "get_data" /\ exc' = exc
    /\ UNCHANGED <<response, http_calls, data, items, i, details, j, outcome,
                   processed, silent, cleanVars>>

\* data.get('data', [])
DataList(d) == IF d.hasData THEN d.d ELSE ListNode(<<>>)

\* lines 55-62: the lookup, the no-data test, and the start of the outer loop
GetData ==
    /\ pc = "get_data"
    /\ LET data_list == DataList(data)
       IN IF ~Truthy(data_list)
          THEN /\ Raise(Raised("ValueError", "no_data",
                     <<"No data found in API response. The API may not have data for the selected date range.">>))
               /\ UNCHANGED <<items, i>>
          ELSE IF ~Iterable(data_list)
          THEN /\ Raise(Raised("TypeError", "not_iterable",
                              <<"'", TypeName(data_list.t), "' object is not iterable">>))
               /\ UNCHANGED <<items, i>>
          ELSE /\ items' = IterEntries(data_list)
               /\ i' = 1
               /\ pc' = "outer"
               /\ exc' = exc
    /\ UNCHANGED <<response, http_calls, data, details, j, pricing_data,
                   skipped_count, outcome, processed, silent, cleanVars>>

\* data_item.get('priceDetails', [])
PriceDetails(item) == IF item.pd.t = "missing" THEN ListNode(<<>>) ELSE item.pd

\* lines 62-70: take the next data_item, skip it or start the inner loop on it
NextItem ==
    /\ pc = "outer"
    /\ IF i > Len(items)
       THEN /\ pc' = "finish"
            /\ UNCHANGED <<i, details, j, exc>>
       ELSE LET data_item == items[i]
            IN IF data_item.t # "dict" \/ ~Truthy(PriceDetails(data_item))
               THEN /\ i' = i + 1
                    /\ UNCHANGED <<pc, details, j, exc>>
               ELSE IF ~Iterable(PriceDetails(data_item))
               THEN /\ Raise(Raised("TypeError", "not_iterable",
                          <<"'", TypeName(PriceDetails(data_item).t), "' object is not iterable">>))
                    /\ UNCHANGED <<i, details, j>>
               ELSE /\ details' = IterDetails(PriceDetails(data_item))
                    /\ j' = 1
                    /\ pc' = "inner"
                    /\ UNCHANGED <<i, exc>>
    /\ UNCHANGED <<response, http_calls, data, items, pricing_data, skipped_count,
                   outcome, processed, silent, cleanVars>>

\* faulty variant: tests the timestamp only
HasTimestamp(detail) ==
    /\ detail.ts.t # "missing"
    /\ ~(detail.ts.t = "str" /\ detail.ts.s = <<>>)

\* line 77: datetime_str and price is not None
HasBoth(detail) ==
    /\ detail.ts.t # "missing"
    /\ ~(detail.ts.t = "str" /\ detail.ts.s = <<>>)
    /\ detail.price.t \notin {"missing", "null"}

\* lines 78-103 for one detail that passed line 77: "append" with the record,
\* "skip" when ValueError or TypeError is caught, "raise" for any other exception
Convert(detail) ==
    LET none == PriceRecord(NoDate, NoFloat)
    IN IF detail.ts.t # "str" THEN [r |-> "skip", rec |-> none, e |-> "TypeError"]
       ELSE IF ~ParseTimestamp(detail.ts.s).ok
            THEN [r |-> "skip", rec |-> none, e |-> "ValueError"]
       ELSE IF ToFloat(detail.price).r = "ok"
            THEN [r |-> "append", e |-> "",
                  rec |-> PriceRecord(ParseTimestamp(detail.ts.s).dt, ToFloat(detail.price).v)]
       ELSE IF ToFloat(detail.price).r \in {"ValueError", "TypeError"}
            THEN [r |-> "skip", rec |-> none, e |-> ToFloat(detail.price).r]
       ELSE [r |-> "raise", rec |-> none, e |-> ToFloat(detail.price).r]

\* lines 70-103: take the next detail
NextDetail ==
    /\ pc = "inner"
    /\ IF j > Len(details)
       THEN /\ i' = i + 1
            /\ pc' = "outer"
            /\ UNCHANGED <<j, pricing_data, skipped_count, exc, processed, silent>>
       ELSE LET detail == details[j]
            IN IF detail.t # "dict"
               THEN /\ j' = j + 1
                    /\ UNCHANGED <<i, pc, pricing_data, skipped_count, exc, processed, silent>>
               ELSE /\ processed' = processed + 1
                    /\ i' = i
                    /\ IF ~HasBoth(detail)
                       THEN /\ silent' = silent + 1
                            /\ j' = j + 1
                            /\ UNCHANGED <<pc, pricing_data, skipped_count, exc>>
                       ELSE LET c == Convert(detail)
                            IN /\ silent' = silent
                               /\ CASE c.r = "append" ->
                                         /\ pricing_data' = Append(pricing_data, c.rec)
                                         /\ j' = j + 1
                                         /\ UNCHANGED <<pc, skipped_count, exc>>
                                    [] c.r = "skip" ->
                                         /\ skipped_count' = skipped_count + 1
                                         /\ j' = j + 1
                                         /\ UNCHANGED <<pc, pricing_data, exc>>
                                    [] OTHER ->
                                         /\ Raise(Raised(c.e, "convert",
                                                         <<"int too large to convert to float">>))
                                         /\ UNCHANGED <<j, pricing_data, skipped_count>>
    /\ UNCHANGED <<response, http_calls, data, items, details, outcome, cleanVars>>

\* lines 105-119
Finish ==
    /\ pc = "finish"
    /\ IF pricing_data = <<>>
       THEN /\ Raise(Raised("ValueError", "no_records", EmptyMessage(skipped_count)))
            /\ outcome' = outcome
       ELSE /\ \E df \in SortValues(pricing_data) : outcome' = Returned(df)
            /\ pc' = "done"
            /\ exc' = exc
    /\ UNCHANGED <<response, http_calls, data, items, i, details, j, pricing_data,
                   skipped_count, processed, silent, cleanVars>>

\* lines 121-124: whatever was raised leaves as Exception("Failed to process data: ...")
Except ==
    /\ pc = "except"
    /\ outcome' = Failure("Exception", exc.origin, <<"Failed to process data: ">> \o exc.msg)
    /\ pc' = "done"
    /\ UNCHANGED <<response, http_calls, data, items, i, details, j, pricing_data,
                   skipped_count, exc, processed, silent, cleanVars>>

----------------------------------------------------------------------------
(* One fetch-and-normalize call *)

Init ==
    /\ pc = "fetch"
    /\ \/ response \in OddResponses
       \/ \E ds \in DetailSeqs(MaxDetails) : \E l \in Layouts(ds) :
              response = Reply("ok", 200, TRUE, Mapping(TRUE, ListNode(l)))
    /\ http_calls = 0
    /\ data = NotMapping("null")
    /\ items = <<>>
    /\ i = 0
    /\ details = <<>>
    /\ j = 0
    /\ pricing_data = <<>>
    /\ skipped_count = 0
    /\ exc = NoExc
    /\ outcome = NoOutcome
    /\ processed = 0
    /\ silent = 0
    /\ datetime_str = <<>>
    /\ datetime_clean = <<>>
    /\ datetime_again = <<>>

Next ==
    \/ Fetch
    \/ FeedNormalizer
    \/ CheckDict
    \/ GetData
    \/ NextItem
    \/ NextDetail
    \/ Finish
    \/ Except

Spec == Init /\ [][Next]_vars

----------------------------------------------------------------------------
(* The timestamp cleanup on its own: lines 82 and 89 applied to a string,  *)
(* then applied again to the result                                        *)

Alphabet == {"-", "1", ".", "\n"}

TsClean == <<"2","0","2","4","-","0","1","-","0","1","T","0","0",":","0","0",":","0","0">>

CleanOnce ==
    /\ pc = "raw"
    /\ datetime_clean' = Cleanup(datetime_str)
    /\ pc' = "once"
    /\ UNCHANGED <<datetime_str, datetime_again, passVars>>

CleanTwice ==
    /\ pc = "once"
    /\ datetime_again' = Cleanup(datetime_clean)
    /\ pc' = "twice"
    /\ UNCHANGED <<datetime_str, datetime_clean, passVars>>

InitCleanup ==
    /\ pc = "raw"
    /\ \E n \in 0..MaxLen : \E tail \in [1..n -> Alphabet] : \E head \in {<<>>, TsClean} :
           datetime_str = head \o tail
    /\ datetime_clean = <<>>
    /\ datetime_again = <<>>
    /\ response = Reply("fail", 0, FALSE, NotMapping("null"))
    /\ http_calls = 0
    /\ data = NotMapping("null")
    /\ items = <<>>
    /\ i = 0
    /\ details = <<>>
    /\ j = 0
    /\ pricing_data = <<>>
    /\ skipped_count = 0
    /\ exc = NoExc
    /\ outcome = NoOutcome
    /\ processed = 0
    /\ silent = 0

NextCleanup ==
    \/ CleanOnce
    \/ CleanTwice

SpecCleanup == InitCleanup /\ [][NextCleanup]_vars

----------------------------------------------------------------------------
(* What the claims speak of, read off the input independently of the loop *)

Range(s) == {s[k] : k \in 1..Len(s)}

Count(r, s) == Cardinality({k \in 1..Len(s) : s[k] = r})

\* the same records with the same multiplicities
SameRecords(a, b) ==
    /\ Len(a) = Len(b)
    /\ \A r \in Range(a) \cup Range(b) : Count(r, a) = Count(r, b)

\* process_pricing_data has been entered and has passed its first test
Called == pc \in {"get_data", "outer", "inner", "finish", "except", "done"} /\ outcome.origin # "fetch"

RECURSIVE FlatFrom(_, _)
FlatFrom(entries, k) ==
    IF k > Len(entries) THEN <<>>
    ELSE (IF entries[k].t = "dict" /\ entries[k].pd.t = "list" THEN entries[k].pd.elems ELSE <<>>)
           \o FlatFrom(entries, k + 1)

IsMapping(x) == x.t = "dict"

\* the detail records of the response that are mappings, in order
MappingDetails(d) == SelectSeq(FlatFrom(d.d.elems, 1), IsMapping)

TsParses(x) == x.ts.t = "str" /\ ParseTimestamp(x.ts.s).ok

IsValidDetail(x) == x.t = "dict" /\ TsParses(x) /\ ToFloat(x.price).r = "ok"

Absent(x) == x.ts.t = "missing" \/ x.price.t \in {"missing", "null"}

ValidRecords(d) ==
    LET v == SelectSeq(MappingDetails(d), IsValidDetail)
    IN [k \in 1..Len(v) |-> PriceRecord(ParseTimestamp(v[k].ts.s).dt, ToFloat(v[k].price).v)]

\* a mapping whose data is a list in which every priceDetails can be iterated over
WellShaped(d) ==
    /\ d.t = "dict" /\ d.hasData /\ d.d.t = "list"
    /\ \A e \in Range(d.d.elems) : ~(e.t = "dict" /\ e.pd.t = "int" /\ e.pd.size # 0)

\* the outer loop ran to its end
LoopEnded == items # <<>> /\ i = Len(items) + 1

\* the inner loop is about to take a detail record that is a mapping
Taking == pc = "inner" /\ j <= Len(details) /\ details[j].t = "dict"

Appended ==
    /\ Len(pricing_data') = Len(pricing_data) + 1
    /\ skipped_count' = skipped_count
    /\ silent' = silent

Counted ==
    /\ pricing_data' = pricing_data
    /\ skipped_count' = skipped_count + 1
    /\ silent' = silent

Silenced ==
    /\ pricing_data' = pricing_data
    /\ skipped_count' = skipped_count
    /\ silent' = silent + 1

----------------------------------------------------------------------------
(* The claims *)

RoundTripInput == Mapping(TRUE, ListNode(<<Entry(ListNode(<<DValidA, DValidB>>))>>))

RoundTripOutput ==
    <<PriceRecord(DtA, [m |-> 125, e |-> 1]), PriceRecord(DtB, [m |-> 13, e |-> 0])>>

\* C1: a returned series holds exactly the valid detail records of the
\* response, sorted ascending by timestamp (the example of the spec gives
\* (00:00, 12.5) then (01:00, 13.0)); and when the response holds a valid
\* record, no invalid record keeps the series from being returned.
C1_ExactSortedSeries ==
    /\ (pc = "done" /\ Called /\ outcome.kind = "ok") =>
           /\ IsSorted(outcome.series)
           /\ SameRecords(outcome.series, ValidRecords(data))
    /\ (pc = "done" /\ Called /\ data = RoundTripInput) =>
           outcome = Returned(RoundTripOutput)
    /\ (pc = "done" /\ Called /\ WellShaped(data) /\ ValidRecords(data) # <<>>) =>
           outcome.kind = "ok"

NoDataInput ==
    /\ data.t = "dict"
    /\ ~data.hasData \/ (data.d.t = "list" /\ data.d.elems = <<>>)

\* C2: a mapping with no data key, or with an empty list under it, fails with
\* the no-data error, before any entry is examined and with no record skipped.
C2_NoDataError ==
    (Called /\ NoDataInput) =>
        /\ pc \in {"get_data", "except", "done"}
        /\ items = <<>> /\ i = 0 /\ processed = 0
        /\ skipped_count = 0
        /\ pc = "except" => exc.cls = "ValueError" /\ exc.origin = "no_data"
        /\ pc = "done" =>
               outcome = Failure("Exception", "no_data",
                   <<"Failed to process data: ",
                     "No data found in API response. The API may not have data for the selected date range.">>)

C2_Witness ==
    pc = "done" /\ Called /\ NoDataInput /\ ~data.hasData /\ outcome.origin = "no_data"

\* C3: an input that is not a mapping fails with the malformed-response
\* error, and the data lookup is never reached.
C3_NotAMapping ==
    (Called /\ data.t # "dict") =>
        /\ items = <<>> /\ i = 0
        /\ \/ /\ pc = "except"
              /\ exc = Raised("ValueError", "not_dict",
                              <<"Expected dict but got ", TypeName(data.t)>>)
           \/ /\ pc = "done"
              /\ outcome = Failure("Exception", "not_dict",
                     <<"Failed to process data: ", "Expected dict but got ", TypeName(data.t)>>)

C3_Witness == pc = "done" /\ Called /\ data.t = "list" /\ outcome.origin = "not_dict"

\* data is present and is no sequence of mappings at all
OddInput ==
    /\ data.t = "dict" /\ data.hasData
    /\ \/ data.d.t \in {"str", "int", "dict"}
       \/ data.d.t = "list" /\ data.d.elems # <<>> /\ \A e \in Range(data.d.elems) : e.t # "dict"

\* C4 as stated: a data value that is no sequence of mappings fails with the
\* malformed-response error.
C4_Original == (pc = "done" /\ Called /\ OddInput) => outcome.origin = "not_dict"

\* C4 as amended: a data value that is no sequence of mappings never gives
\* the malformed-response error: zero, "" and {} give the no-data error, any
\* other number the wrapped "not iterable" TypeError, and a non-empty string,
\* mapping or list of non-mappings the empty-result error with no skip count.
C4_Amended ==
    (pc = "done" /\ Called /\ OddInput) =>
        /\ outcome.kind = "error" /\ outcome.cls = "Exception"
        /\ outcome.msg[1] = "Failed to process data: "
        /\ IF data.d.t # "list" /\ data.d.size = 0 THEN outcome.origin = "no_data"
           ELSE IF data.d.t = "int"
           THEN /\ outcome.origin = "not_iterable"
                /\ SubSeq(outcome.msg, 2, 4) = <<"'", "int", "' object is not iterable">>
           ELSE /\ outcome.origin = "no_records"
                /\ LoopEnded /\ processed = 0 /\ skipped_count = 0
                /\ " Skipped " \notin Range(outcome.msg)

C4_Witness ==
    /\ pc = "done" /\ Called /\ OddInput
    /\ data.d.t = "str" /\ data.d.size = 2 /\ outcome.origin = "no_records"

C6_FiveOutcomes ==
    pc = "done" =>
        \/ outcome.kind = "ok" /\ IsSorted(outcome.series)
        \/ outcome.kind = "error" /\ outcome.origin \in {"fetch", "not_dict", "no_data", "no_records"}

AttemptFails(r) == r.net = "fail" \/ r.status >= 400 \/ ~r.json

\* C7: each call issues exactly one GET; a network failure, an error status
\* or a body that is not JSON ends the call with the fetch failure carrying
\* the cause, with no second request and nothing of the response processed.
C7_SingleAttempt ==
    /\ http_calls = (IF pc = "fetch" THEN 0 ELSE 1)
    /\ (pc # "fetch" /\ AttemptFails(response)) =>
           /\ pc = "done"
           /\ outcome.kind = "error" /\ outcome.cls = "Exception" /\ outcome.origin = "fetch"
           /\ Len(outcome.msg) = 2 /\ outcome.msg[1] = "Failed to fetch data: "
           /\ response.net = "fail" => outcome.msg[2] = "ConnectionError"
           /\ (response.net = "ok" /\ response.status >= 400) =>
                  outcome.msg[2] = "HTTPError " \o ToString(response.status)
           /\ (response.net = "ok" /\ response.status < 400) =>
                  outcome.msg[2] = "JSONDecodeError"
           /\ data = NotMapping("null") /\ items = <<>> /\ pricing_data = <<>> /\ processed = 0
    /\ (pc # "fetch" /\ ~AttemptFails(response)) => data = response.body

C7_Witness ==
    /\ pc = "done" /\ http_calls = 1 /\ response.status = 404 /\ response.json
    /\ outcome.origin = "fetch"

\* s ends with a sign and four digits, a final newline apart
TrailingOffset(s) ==
    \/ EndsWithOffset(s)
    \/ Len(s) >= 6 /\ s[Len(s)] = "\n" /\ EndsWithOffset(SubSeq(s, 1, Len(s) - 1))

HasFraction(s) == \E k \in 1..Len(s) : s[k] = "." /\ IsDigitAt(s, k + 1)

\* C8 as stated: cleanup(cleanup(s)) = cleanup(s) for every string s.
C8_Original == pc = "twice" => datetime_again = datetime_clean

\* C8 as amended: the cleanup leaves a string with no trailing offset and no
\* fractional part unchanged, and cleanup(cleanup(s)) = cleanup(s) for every
\* s whose cleanup does not itself end with a sign and four digits.
C8_Amended ==
    /\ (pc \in {"once", "twice"} /\ ~TrailingOffset(datetime_str) /\ ~HasFraction(datetime_str)) =>
           datetime_clean = datetime_str
    /\ (pc = "twice" /\ ~TrailingOffset(datetime_clean)) => datetime_again = datetime_clean

C8_Witness ==
    /\ pc = "twice"
    /\ datetime_str = TsClean \o <<".", "1", "-", "1", "1", "1", "1">>
    /\ datetime_clean = TsClean /\ datetime_again = TsClean

C9_SilentStep ==
    (Taking /\ Absent(details[j])) =>
        /\ pricing_data' = pricing_data /\ skipped_count' = skipped_count
        /\ silent' = silent + 1
        /\ pc' = "inner" /\ j' = j + 1 /\ exc' = exc

C9_CountStep ==
    skipped_count' # skipped_count =>
        /\ Taking /\ ~Absent(details[j])
        /\ ~TsParses(details[j]) \/ ToFloat(details[j].price).r # "ok"
        /\ skipped_count' = skipped_count + 1

C9_Example ==
    (/\ pc = "done" /\ Called /\ WellShaped(data)
     /\ \A x \in Range(MappingDetails(data)) : Absent(x) \/ IsValidDetail(x)
     /\ \E x \in Range(MappingDetails(data)) : IsValidDetail(x)) =>
        /\ outcome.kind = "ok"
        /\ SameRecords(outcome.series, ValidRecords(data))
        /\ skipped_count = 0

\* C9: a detail record with a missing timestamp or price, or a null price, is
\* passed over: no output record, no increment of the counter, no error; the
\* counter rises only for a record with both fields whose timestamp does not
\* parse or whose price does not convert; with such records and valid ones
\* only, the valid ones are returned.
C9_SilentSkip == [][C9_SilentStep /\ C9_CountStep]_vars /\ []C9_Example

C9_Witness ==
    /\ pc = "done" /\ outcome.kind = "ok" /\ Len(outcome.series) = 1
    /\ silent = 1 /\ processed = 2 /\ skipped_count = 0
    /\ DNoPrice \in Range(MappingDetails(data))

C10_Step ==
    Taking =>
        /\ Appended \/ Counted \/ Silenced
        /\ (~Absent(details[j]) /\ TsParses(details[j]) /\ ToFloat(details[j].price).r # "ok")
               => Counted

\* C10: every mapping detail record taken by the loop is appended, counted as
\* skipped or passed over, so that the three counts add up to the records
\* taken; a record whose timestamp parses and whose price does not convert is
\* counted as skipped; skipped_count never decreases.
C10_Accounting ==
    /\ [][C10_Step /\ skipped_count' >= skipped_count]_vars
    /\ [](Len(pricing_data) + skipped_count + silent = processed)

====
